---- MODULE Spec2Model ----
(***************************************************************************)
(* A model of infer-json-stream: inference of a structural type from a     *)
(* JSON value (inference.rs), the merge of two types (inference.rs), the   *)
(* rendering of a type (formatting.rs) and the generation pipeline         *)
(* (generation.rs), whose per-category reduction runs on rayon.            *)
(*                                                                         *)
(* Representation.                                                         *)
(*   String (Rust)      a sequence of one-character strings, <<"a","b">>   *)
(*   PrimitiveType      0..3 in declaration order (the derived Ord)        *)
(*   InferredType       a tuple whose first element is the variant         *)
(*                        <<"Primitive", p>>   <<"Any">>   <<"Never">>     *)
(*                        <<"Array", t>>       <<"NullableObj", t>>        *)
(*                        <<"PrimitiveUnion", seq>>                        *)
(*                        <<"PrimitiveTuple", seq>>                        *)
(*                        <<"Object", props>>  props: a set of             *)
(*                             <<key, type, optional>> with unique keys    *)
(*   a panic            <<"Panic">> in the place of the InferredType that  *)
(*                      the call would have returned (unreachable!())      *)
(*   serde_json::Value  <<"null">> <<"bool", b>> <<"number", n>>           *)
(*                      <<"string", text>> <<"array", seq>>                *)
(*                      <<"object", members>>  members: a set of           *)
(*                             <<key, value>> with unique keys             *)
(*   JSON text          <<"ser", v>>  the serialisation of the value v     *)
(*                      <<"raw", cs>> the characters cs, which are not the *)
(*                                    serialisation of any value           *)
(***************************************************************************)
EXTENDS Integers, Sequences, FiniteSets

VARIABLES
    json_array,              \* the input: a sequence of InputData
    pc,                      \* position in generate_typescript_definitions
    items,                   \* the decoded (type, content, is_invalid) triples
    type_contents,           \* category -> decoded values (<<>>: no entry)
    invalid_json_types,      \* category -> <<"some", raw>> or <<"none">>
    overall_inferred_types,  \* category -> InferredType or <<"absent">>
    output                   \* <<"none">>, <<"Ok", blocks>> or <<"Panic">>

vars == <<json_array, pc, items, type_contents, invalid_json_types,
          overall_inferred_types, output>>

----------------------------------------------------------------------------
(* types.rs *)

String == 0

Number == 1

Boolean == 2

Null == 3

PrimitiveType == {String, Number, Boolean, Null}

as_str(p) ==
    CASE p = String -> "string"
      [] p = Number -> "number"
      [] p = Boolean -> "boolean"
      [] p = Null -> "null"

Primitive(p) == <<"Primitive", p>>

Any == <<"Any">>

Never == <<"Never">>

Panic == <<"Panic">>

\* A constructor applied to the result of a call that panicked is never
\* reached: the panic unwinds through it.
Boxed(variant, inner) == IF inner = Panic THEN Panic ELSE <<variant, inner>>

----------------------------------------------------------------------------
(* Vec<PrimitiveType> operations used by inference.rs *)

contains(types, p) == \E i \in 1..Len(types) : types[i] = p

RECURSIVE InsertSorted(_, _)
InsertSorted(sorted, p) ==
    IF sorted = <<>> THEN <<p>>
    ELSE IF p < Head(sorted) THEN <<p>> \o sorted
    ELSE <<Head(sorted)>> \o InsertSorted(Tail(sorted), p)

\* sort leaving the kinds in encounter order
sort_EncounterOrder(types) == types

\* Vec::sort on PrimitiveType (ascending by the derived Ord; equal elements
\* are indistinguishable, so stability is not observable).
RECURSIVE sort(_)
sort(types) ==
    IF types = <<>> THEN <<>>
    ELSE InsertSorted(sort(Tail(types)), Head(types))

\* Vec::dedup: removes consecutive repeated elements.
RECURSIVE dedup(_)
dedup(types) ==
    IF Len(types) <= 1 THEN types
    ELSE IF types[1] = types[2] THEN dedup(Tail(types))
    ELSE <<types[1]>> \o dedup(Tail(types))

\* Pushes onto `into` every element of `from` that it does not yet contain,
\* in the order of `from` (the "if !contains { push }" loops).
RECURSIVE PushMissing(_, _)
PushMissing(into, from) ==
    IF from = <<>> THEN into
    ELSE PushMissing(IF contains(into, Head(from)) THEN into
                     ELSE Append(into, Head(from)),
                     Tail(from))

all_same_type(first_type, tail_types) ==
    \A i \in 1..Len(tail_types) : tail_types[i] = first_type

----------------------------------------------------------------------------
(* inference.rs: merge_types *)

EMPTY_TUPLE == <<"PrimitiveTuple", <<>>>>

\* merge_any returning the other type
merge_any_KeepsOther(other) == other

\* (Any, _) | (_, Any), line 66: the other type is discarded
merge_any(other) == Any

\* merge_never returning Any
merge_never_Any(t) == Any

\* (Never, t) | (t, Never), line 67
merge_never(t) == t

\* (Primitive(p1), Primitive(p2)), lines 68-70
merge_primitives(p1, p2) ==
    <<"PrimitiveUnion", IF p1 < p2 THEN <<p1, p2>> ELSE <<p2, p1>>>>

\* (Primitive(p), PrimitiveUnion(types)) in either order, lines 71-80
merge_primitive_union(p, types) ==
    IF contains(types, p) THEN <<"PrimitiveUnion", types>>
    ELSE <<"PrimitiveUnion", sort(Append(types, p))>>

\* (PrimitiveUnion(types1), PrimitiveUnion(types2)), lines 81-93
merge_unions(types1, types2) ==
    IF types1 = types2 THEN <<"PrimitiveUnion", types1>>
    ELSE <<"PrimitiveUnion", sort(PushMissing(types1, types2))>>

\* merge_tuples without `unique_types.dedup()`
merge_tuples_NoDedup(types1, types2) ==
    IF types1 = types2 THEN <<"PrimitiveTuple", types1>>
    ELSE LET all_types == types1 \o types2 IN
         IF all_types = <<>> THEN <<"PrimitiveTuple", <<>>>>
         ELSE IF all_same_type(Head(all_types), Tail(all_types))
              THEN <<"Array", Primitive(Head(all_types))>>
              ELSE <<"Array", <<"PrimitiveUnion", sort(all_types)>>>>

\* (PrimitiveTuple(types1), PrimitiveTuple(types2)), lines 94-117
merge_tuples(types1, types2) ==
    IF types1 = types2 THEN <<"PrimitiveTuple", types1>>
    ELSE LET all_types == types1 \o types2 IN
         IF all_types = <<>> THEN EMPTY_TUPLE
         ELSE LET first_type == Head(all_types) IN
              IF all_same_type(first_type, Tail(all_types))
              THEN <<"Array", Primitive(first_type)>>
              ELSE <<"Array", <<"PrimitiveUnion", dedup(sort(all_types))>>>>

\* merge_tuple_array with the empty tuple taking the place of the array
merge_tuple_array_EmptyWins(types, item_type) ==
    IF types = <<>> THEN EMPTY_TUPLE ELSE <<"Array", item_type>>

\* (PrimitiveTuple(types), Array(item_type)) in either order, lines 118-178
merge_tuple_array(types, item_type) ==
    IF item_type[1] = "PrimitiveUnion"
    THEN LET pushed == PushMissing(item_type[2], types)
             tuple_has_new_type == pushed # item_type[2]
         IN  <<"Array", <<"PrimitiveUnion",
                          IF tuple_has_new_type THEN sort(pushed) ELSE pushed>>>>
    ELSE LET primitive_item_type ==
                 IF item_type[1] = "Primitive" THEN <<"Some", item_type[2]>>
                 ELSE <<"None">>
         IN
         IF types = <<>> THEN <<"Array", item_type>>
         ELSE LET first_type == Head(types) IN
              IF ~all_same_type(first_type, Tail(types))
              THEN LET unique_types ==
                           IF primitive_item_type[1] = "Some"
                              /\ ~contains(types, primitive_item_type[2])
                           THEN Append(types, primitive_item_type[2])
                           ELSE types
                   IN  <<"Array", <<"PrimitiveUnion", sort(unique_types)>>>>
              ELSE IF primitive_item_type[1] = "Some"
              THEN LET p == primitive_item_type[2] IN
                   IF p = first_type THEN <<"Array", Primitive(p)>>
                   ELSE <<"Array", <<"PrimitiveUnion",
                                     IF p < first_type THEN <<p, first_type>>
                                     ELSE <<first_type, p>>>>>>
              ELSE <<"Array", Primitive(first_type)>>

\* (t, Primitive(Null)) in either order, lines 209-215
merge_null(t) ==
    IF t[1] = "Object" \/ t[1] = "Array" THEN <<"NullableObj", t>>
    ELSE Panic

\* one_sided without `optional: true`
one_sided_KeepsFlag(prop) == prop

\* A key of only one of the two objects, lines 191-194 and 198-206
one_sided(prop) == <<prop[1], prop[2], TRUE>>

\* The optional flag of a key of both objects, line 189
both_optional(optional1, optional2) == optional1 \/ optional2

Keys(props) == {prop[1] : prop \in props}

PropOf(props, key) == CHOOSE prop \in props : prop[1] = key

\* An Object whose property types include the result of a call that
\* panicked is never built.
ObjectOf(props) ==
    IF \E prop \in props : prop[2] = Panic THEN Panic ELSE <<"Object", props>>

RECURSIVE merge_types(_, _)
merge_types(type1, type2) ==
    IF type1 = Panic \/ type2 = Panic THEN Panic
    ELSE IF type1 = type2 THEN type1
    ELSE IF type1[1] = "Any" THEN merge_any(type2)
    ELSE IF type2[1] = "Any" THEN merge_any(type1)
    ELSE IF type1[1] = "Never" THEN merge_never(type2)
    ELSE IF type2[1] = "Never" THEN merge_never(type1)
    ELSE IF type1[1] = "Primitive" /\ type2[1] = "Primitive"
         THEN merge_primitives(type1[2], type2[2])
    ELSE IF type1[1] = "Primitive" /\ type2[1] = "PrimitiveUnion"
         THEN merge_primitive_union(type1[2], type2[2])
    ELSE IF type1[1] = "PrimitiveUnion" /\ type2[1] = "Primitive"
         THEN merge_primitive_union(type2[2], type1[2])
    ELSE IF type1[1] = "PrimitiveUnion" /\ type2[1] = "PrimitiveUnion"
         THEN merge_unions(type1[2], type2[2])
    ELSE IF type1[1] = "PrimitiveTuple" /\ type2[1] = "PrimitiveTuple"
         THEN merge_tuples(type1[2], type2[2])
    ELSE IF type1[1] = "PrimitiveTuple" /\ type2[1] = "Array"
         THEN merge_tuple_array(type1[2], type2[2])
    ELSE IF type1[1] = "Array" /\ type2[1] = "PrimitiveTuple"
         THEN merge_tuple_array(type2[2], type1[2])
    ELSE IF type1[1] = "Array" /\ type2[1] = "Array"
         THEN Boxed("Array", merge_types(type1[2], type2[2]))
    ELSE IF type1[1] = "Object" /\ type2[1] = "Object"
         THEN LET obj1 == type1[2]
                  obj2 == type2[2]
              IN  ObjectOf(
                    {IF prop1[1] \in Keys(obj2)
                     THEN LET p2 == PropOf(obj2, prop1[1]) IN
                          <<prop1[1], merge_types(prop1[2], p2[2]),
                            both_optional(prop1[3], p2[3])>>
                     ELSE one_sided(prop1) : prop1 \in obj1}
                    \cup
                    {one_sided(prop2) :
                        prop2 \in {q \in obj2 : q[1] \notin Keys(obj1)}})
    ELSE IF type2 = Primitive(Null) THEN merge_null(type1)
    ELSE IF type1 = Primitive(Null) THEN merge_null(type2)
    ELSE IF type1[1] = "NullableObj" /\ type2[1] = "NullableObj"
         THEN Boxed("NullableObj", merge_types(type1[2], type2[2]))
    ELSE IF type1[1] = "NullableObj"
         THEN Boxed("NullableObj", merge_types(type1[2], type2))
    ELSE IF type2[1] = "NullableObj"
         THEN Boxed("NullableObj", merge_types(type2[2], type1))
    ELSE Any

----------------------------------------------------------------------------
(* inference.rs: infer_type_from_value *)

IsPrimitiveValue(val) == val[1] \in {"null", "bool", "number", "string"}

\* The kind of a primitive value, lines 9-12 and 19-22
PrimitiveKind(val) ==
    IF val[1] = "null" THEN Null
    ELSE IF val[1] = "bool" THEN Boolean
    ELSE IF val[1] = "number" THEN Number
    ELSE String

\* FoldLeft returning its seed
FoldLeft_KeepsSeed(acc, types) == acc

\* Iterator::fold(init, f): f(...f(f(init, s[1]), s[2])..., s[n])
RECURSIVE FoldLeft(_, _)
FoldLeft(acc, types) ==
    IF types = <<>> THEN acc
    ELSE FoldLeft(merge_types(acc, Head(types)), Tail(types))

RECURSIVE infer_type_from_value(_)
infer_type_from_value(value) ==
    IF IsPrimitiveValue(value) THEN Primitive(PrimitiveKind(value))
    ELSE IF value[1] = "array"
    THEN LET arr == value[2] IN
         IF \A i \in 1..Len(arr) : IsPrimitiveValue(arr[i])
         THEN <<"PrimitiveTuple", sort([i \in 1..Len(arr) |-> PrimitiveKind(arr[i])])>>
         ELSE LET inferred == [i \in 1..Len(arr) |-> infer_type_from_value(arr[i])]
              IN  \* Iterator::reduce: the first element seeds the fold
                  IF inferred = <<>> THEN EMPTY_TUPLE
                  ELSE Boxed("Array", FoldLeft(Head(inferred), Tail(inferred)))
    ELSE ObjectOf({<<member[1], infer_type_from_value(member[2]), FALSE>> :
                      member \in value[2]})

----------------------------------------------------------------------------
(* Rust strings: sequences of characters, compared by code point *)

CodePoint(c) ==
    CASE c = "\"" -> 34
      [] c = "$" -> 36
      [] c = "-" -> 45
      [] c = "1" -> 49
      [] c = "A" -> 65
      [] c = "B" -> 66
      [] c = "_" -> 95
      [] c = "a" -> 97
      [] c = "b" -> 98
      [] c = "x" -> 120
      [] c = "{" -> 123
      [] c = "²" -> 178
      [] c = "é" -> 233

\* Ord for str: lexicographic by character, a proper prefix first.
RECURSIVE StrLess(_, _)
StrLess(s1, s2) ==
    IF s2 = <<>> THEN FALSE
    ELSE IF s1 = <<>> THEN TRUE
    ELSE IF Head(s1) # Head(s2) THEN CodePoint(Head(s1)) < CodePoint(Head(s2))
    ELSE StrLess(Tail(s1), Tail(s2))

\* The strings of a set in ascending order (BTreeMap iteration, sort_by on
\* unique keys).
RECURSIVE Ascending(_)
Ascending(strs) ==
    IF strs = {} THEN <<>>
    ELSE LET least == CHOOSE s \in strs : \A o \in strs \ {s} : StrLess(s, o)
         IN  <<least>> \o Ascending(strs \ {least})

\* The text of a Rust string.
RECURSIVE Shown(_)
Shown(cs) == IF cs = <<>> THEN "" ELSE Head(cs) \o Shown(Tail(cs))

\* [&str]::join
RECURSIVE join(_, _)
join(strs, sep) ==
    IF strs = <<>> THEN ""
    ELSE IF Len(strs) = 1 THEN strs[1]
    ELSE strs[1] \o sep \o join(Tail(strs), sep)

----------------------------------------------------------------------------
(* formatting.rs *)

\* char::is_numeric (Unicode categories Nd, Nl, No) on the characters used here
is_numeric(c) == c \in {"1", "²"}

\* char::is_alphanumeric (Alphabetic or numeric) on the characters used here
is_alphanumeric(c) == c \in {"1", "A", "B", "a", "b", "x", "²", "é"}

\* is_valid_ts_identifier as the pattern ^[^0-9][A-Za-z0-9_$]*$
is_valid_ts_identifier_Pattern(s) ==
    /\ s # <<>> /\ Head(s) # "1"
    /\ \A i \in 2..Len(s) : s[i] \in {"1", "A", "B", "a", "b", "x", "_", "$"}

\* Lines 6-10
is_valid_ts_identifier(s) ==
    /\ s # <<>> /\ ~is_numeric(Head(s))
    /\ \A i \in 1..Len(s) : is_alphanumeric(s[i]) \/ s[i] = "_" \/ s[i] = "$"

\* str::replace("\"", "\\\"")
RECURSIVE EscapeQuotes(_)
EscapeQuotes(cs) ==
    IF cs = <<>> THEN ""
    ELSE (IF Head(cs) = "\"" THEN "\\\"" ELSE Head(cs)) \o EscapeQuotes(Tail(cs))

format_property_key(key) ==
    IF is_valid_ts_identifier(key) THEN Shown(key)
    ELSE "\"" \o EscapeQuotes(key) \o "\""

\* Whether format_type_to_ts_string(inferred_type) reaches its arm
\* `InferredType::Never => unreachable!()`: the function visits every nested
\* type, so it does exactly when a Never occurs in inferred_type.
RECURSIVE format_panics(_)
format_panics(inferred_type) ==
    LET variant == inferred_type[1] IN
    IF variant = "Never" THEN TRUE
    ELSE IF variant = "Array" \/ variant = "NullableObj"
    THEN format_panics(inferred_type[2])
    ELSE IF variant = "Object"
    THEN \E prop \in inferred_type[2] : format_panics(prop[2])
    ELSE FALSE

\* HashMap::into_iter, line 42: the entries in an order the hasher decides
IterationOrders(properties) ==
    {order \in [1..Cardinality(properties) -> properties] :
        \A i, j \in 1..Cardinality(properties) : order[i] = order[j] => i = j}

RECURSIVE InsertByKey(_, _)
InsertByKey(sorted, entry) ==
    IF sorted = <<>> THEN <<entry>>
    ELSE IF StrLess(entry[1], Head(sorted)[1]) THEN <<entry>> \o sorted
    ELSE <<Head(sorted)>> \o InsertByKey(Tail(sorted), entry)

\* sort_by_key leaving the entries as they come
sort_by_key_Unsorted(entries) == entries

\* sorted.sort_by(|(key1, _), (key2, _)| key1.cmp(key2)), line 43 (the keys
\* of a map are unique, so stability is not observable)
RECURSIVE sort_by_key(_)
sort_by_key(entries) ==
    IF entries = <<>> THEN <<>>
    ELSE InsertByKey(sort_by_key(Tail(entries)), Head(entries))

RECURSIVE format_type_to_ts_string(_)

\* Lines 42-56: the text of a non-empty Object whose map iterates as `entries`
format_object(entries) ==
    LET sorted == sort_by_key(entries)
        props == [i \in 1..Len(sorted) |->
                    "  " \o format_property_key(sorted[i][1])
                         \o (IF sorted[i][3] THEN "?" ELSE "")
                         \o ": " \o format_type_to_ts_string(sorted[i][2])]
    IN  "{\n" \o join(props, ";\n") \o "\n}"

\* The text returned when format_panics(inferred_type) is false.
format_type_to_ts_string(inferred_type) ==
    LET variant == inferred_type[1] IN
    IF variant = "Primitive" THEN as_str(inferred_type[2])
    ELSE IF variant = "Any" THEN "any"
    ELSE IF variant = "PrimitiveUnion"
    THEN join([i \in 1..Len(inferred_type[2]) |-> as_str(inferred_type[2][i])], " | ")
    ELSE IF variant = "PrimitiveTuple"
    THEN IF inferred_type[2] = <<>> THEN "[]"
         ELSE "[" \o join([i \in 1..Len(inferred_type[2]) |->
                              as_str(inferred_type[2][i])], ", ") \o "]"
    ELSE IF variant = "Array"
    THEN "Array<" \o format_type_to_ts_string(inferred_type[2]) \o ">"
    ELSE IF variant = "Object"
    THEN LET properties == inferred_type[2] IN
         IF properties = {} THEN "object"
         ELSE format_object(CHOOSE order \in IterationOrders(properties) : TRUE)
    ELSE IF variant = "NullableObj"
    THEN format_type_to_ts_string(inferred_type[2]) \o " | null"
    ELSE "<unreachable>"   \* InferredType::Never: see format_panics

----------------------------------------------------------------------------
(* generation.rs: generate_typescript_definitions *)

\* serde_json::from_str
from_str(text) == IF text[1] = "ser" THEN <<"Ok", text[2]>> ELSE <<"Err">>

\* The closure of the first par_iter().map(), lines 18-39
DecodeItem(item) ==
    LET first_parse == from_str(item[2]) IN
    IF first_parse[1] = "Err" THEN <<item[1], <<"string", item[2]>>, TRUE>>
    ELSE IF first_parse[2][1] = "string"
    THEN LET s == first_parse[2][2]
             parsed == from_str(s)
         IN  IF parsed[1] = "Ok" THEN <<item[1], parsed[2], FALSE>>
             ELSE <<item[1], <<"string", s>>, TRUE>>
    ELSE <<item[1], first_parse[2], FALSE>>

\* GroupItem recording invalid content under every category
GroupItem_InvalidForAll(acc, item) ==
    IF item[3]
    THEN <<acc[1], [c \in DOMAIN acc[2] |-> <<"some", item[2][2]>>]>>
    ELSE <<[acc[1] EXCEPT ![item[1]] = Append(@, item[2])], acc[2]>>

\* The closure of the fold, lines 47-56; acc = <<type_contents, invalid_json_types>>
GroupItem(acc, item) ==
    LET type_name == item[1]
        content == item[2]
        is_invalid == item[3]
    IN  IF is_invalid
        THEN IF content[1] = "string"
             THEN <<acc[1], [acc[2] EXCEPT ![type_name] = <<"some", content[2]>>]>>
             ELSE acc
        ELSE <<[acc[1] EXCEPT ![type_name] = Append(@, content)], acc[2]>>

RECURSIVE GroupFold(_, _)
GroupFold(acc, its) ==
    IF its = <<>> THEN acc ELSE GroupFold(GroupItem(acc, Head(its)), Tail(its))

\* rayon's reduce(identity, op) on an indexed iterator: a piece of the
\* sequence is either folded from identity() left to right, or split at its
\* midpoint into two pieces whose results op combines (left, right).  Which
\* pieces are split is up to the scheduler.
RECURSIVE ReduceOutcomes(_)
ReduceOutcomes(types) ==
    {FoldLeft(Never, types)}
    \cup
    IF Len(types) >= 2
    THEN LET mid == Len(types) \div 2 IN
         {merge_types(left, right) :
              left \in ReduceOutcomes(SubSeq(types, 1, mid)),
              right \in ReduceOutcomes(SubSeq(types, mid + 1, Len(types)))}
    ELSE {}

\* contents.into_par_iter().map(infer_type_from_value), lines 62-64
InferredOf(contents) == [i \in 1..Len(contents) |-> infer_type_from_value(contents[i])]

\* Extended without the entries of invalid_json_types
Extended_NothingAdded(overall, invalid) == overall

\* Lines 70-75: BTreeMap::extend with Primitive(String) for every key of
\* invalid_json_types
Extended(overall, invalid) ==
    [c \in DOMAIN overall |->
        IF invalid[c][1] = "some" THEN Primitive(String) ELSE overall[c]]

\* stringcase::pascal_case on the (lower-case, one-word) category names used here
pascal_case(s) ==
    IF s = <<>> THEN ""
    ELSE (CASE Head(s) = "a" -> "A" [] Head(s) = "b" -> "B" [] OTHER -> Head(s))
         \o Shown(Tail(s))

root_name == "Events"

Absent == <<"absent">>

HasEntry(map, key) == map[key] # Absent

\* Lines 79-97 for one entry of the BTreeMap
Declaration(event_type_key, inferred_type, invalid) ==
    LET type_name == pascal_case(event_type_key) \o "Content"
        ts_output ==
            IF invalid[event_type_key][1] = "some"
            THEN "// The 'content' field contained invalid JSON: \""
                 \o Shown(invalid[event_type_key][2][2]) \o "\"\nexport type "
                 \o type_name \o " = " \o format_type_to_ts_string(inferred_type)
                 \o ";\n\n"
            ELSE "export type " \o type_name \o " = "
                 \o format_type_to_ts_string(inferred_type) \o ";\n\n"
        event_type_string ==
            "{ type: \"" \o Shown(event_type_key) \o "\", content: " \o type_name \o " }"
    IN  <<ts_output, event_type_string>>

\* Lines 77-105: the text assembled from the final BTreeMap.  The text is kept
\* as the sequence of its blocks, one per category in key order and then the
\* root declaration; the String returned is their concatenation.
Assemble(overall, invalid) ==
    LET keys == Ascending({c \in DOMAIN overall : HasEntry(overall, c)})
        decls == [i \in 1..Len(keys) |-> Declaration(keys[i], overall[keys[i]], invalid)]
    IN  IF \E c \in DOMAIN overall : HasEntry(overall, c) /\ format_panics(overall[c])
        THEN Panic
        ELSE <<"Ok", [i \in 1..Len(keys) |-> decls[i][1]]
                     \o <<"export type " \o root_name \o " = "
                          \o join([i \in 1..Len(keys) |-> decls[i][2]], " | ")
                          \o ";\n">>>>

\* generate_typescript_definitions as a whole: the results the call can
\* return for an input, over the choices of the reductions (lines 16-105)
generate_typescript_definitions(input, categories) ==
    LET decoded == [i \in 1..Len(input) |-> DecodeItem(input[i])]
        acc == GroupFold(<<[c \in categories |-> <<>>],
                           [c \in categories |-> <<"none">>]>>, decoded)
        finals(c) == IF acc[1][c] = <<>> THEN {Absent}
                     ELSE ReduceOutcomes(InferredOf(acc[1][c]))
        reduced == {f \in [categories -> UNION {finals(c) : c \in categories}] :
                       \A c \in categories : f[c] \in finals(c)}
    IN  {IF \E c \in categories : f[c] = Panic THEN Panic
         ELSE Assemble(Extended(f, acc[2]), acc[2]) : f \in reduced}

----------------------------------------------------------------------------
(* Inputs *)

MaxSamples == 3

VNull == <<"null">>

VNumber == <<"number", 1>>

VString(cs) == <<"string", <<"raw", cs>>>>

VArray(elems) == <<"array", elems>>

VObject(members) == <<"object", members>>

Ser(value) == <<"ser", value>>

\* Text that is no JSON document, such as {x
NotJson == <<"raw", <<"{", "x">>>>

\* "x" (a JSON string whose characters are no JSON document) and "{}" (a JSON
\* string whose characters are one: the double encoding of the tests)
QuotedNotJson == Ser(<<"string", <<"raw", <<"x">>>>>>)

QuotedObject == Ser(<<"string", Ser(VObject({}))>>)

KeyA == <<"a">>

Categories == {<<"a", "b">>, <<"b">>}

Contents ==
    { NotJson, QuotedNotJson, QuotedObject,
      Ser(VNull), Ser(VNumber), Ser(VObject({})),
      Ser(VArray(<<VNumber>>)), Ser(VArray(<<VObject({})>>)),
      Ser(VObject({<<KeyA, VNull>>})), Ser(VObject({<<KeyA, VObject({})>>})),
      Ser(VArray(<<VArray(<<VString(<<"x">>), VNumber, VNumber>>),
                   VArray(<<VObject({})>>)>>)),
      Ser(VArray(<<VArray(<<VString(<<"x">>)>>), VArray(<<VNumber>>)>>)) }

\* The sequences over S of length 1..n
RECURSIVE SeqsUpTo(_, _)
SeqsUpTo(S, n) ==
    IF n = 0 THEN {}
    ELSE LET shorter == SeqsUpTo(S, n - 1) IN
         {<<x>> : x \in S} \cup shorter
         \cup {Append(q, x) : q \in {r \in shorter : Len(r) = n - 1}, x \in S}

InitOver(categories, contents, n) ==
    /\ json_array \in SeqsUpTo(categories \X contents, n)
    /\ pc = "start"
    /\ items = <<>>
    /\ type_contents = [c \in Categories |-> <<>>]
    /\ invalid_json_types = [c \in Categories |-> <<"none">>]
    /\ overall_inferred_types = [c \in Categories |-> Absent]
    /\ output = <<"none">>

Init == InitOver(Categories, Contents, MaxSamples)

\* Two categories, contents that decode and contents that do not
DecodeContents ==
    { NotJson, QuotedNotJson, QuotedObject,
      Ser(VNull), Ser(VNumber), Ser(VArray(<<VNumber>>)) }

InitDecode == InitOver(Categories, DecodeContents, MaxSamples)

\* One category of objects over two keys
KeyB == <<"b">>

ObjectContents ==
    {Ser(VObject({<<k, f[k]>> : k \in ks})) :
        ks \in SUBSET {KeyA, KeyB},
        f \in [{KeyA, KeyB} -> {VNumber, VNull, VObject({})}]}

InitObjects == InitOver({<<"b">>}, ObjectContents, MaxSamples)

\* One category of arrays of primitives
MaxArrLen == 2

MaxTupleSamples == 2

TupleContents ==
    {Ser(VArray(<<>>))}
    \cup {Ser(VArray(elems)) :
             elems \in SeqsUpTo({VString(<<"x">>), VNumber, VNull}, MaxArrLen)}

InitTuples == InitOver({<<"b">>}, TupleContents, MaxTupleSamples)

\* One category of values of every kind: primitives (a string content is
\* valid only when double encoded), objects, tuples and arrays, and content
\* that does not decode
QuotedString == Ser(<<"string", Ser(VString(<<"x">>))>>)

MergeContents ==
    { NotJson, Ser(VNull), Ser(VNumber), QuotedString, Ser(VObject({})),
      Ser(VArray(<<>>)), Ser(VArray(<<VNumber>>)), Ser(VArray(<<VNumber, VNumber>>)),
      Ser(VArray(<<VString(<<"x">>), VNumber, VNumber>>)),
      Ser(VArray(<<VObject({})>>)), Ser(VArray(<<VArray(<<VObject({})>>)>>)) }

InitMerge == InitOver({<<"b">>}, MergeContents, MaxSamples)

\* One category of one-property objects over keys of every form: plain,
\* with `_`, `$`, a leading digit, a dash inside or in front, a quote, no
\* character at all, and letters and digits outside ASCII
PropertyKeys ==
    { <<"a">>, <<"a", "_", "1">>, <<"$", "a">>, <<"_">>, <<"1", "a">>,
      <<"a", "-", "b">>, <<"-", "a">>, <<"a", "\"", "b">>, <<>>,
      <<"a", "é">>, <<"é">>, <<"²", "a">> }

KeyContents == {Ser(VObject({<<key, VNumber>>})) : key \in PropertyKeys}

MaxKeySamples == 2

InitKeys == InitOver({<<"b">>}, KeyContents, MaxKeySamples)

\* One category of one-property objects over keys that sort in none of the
\* orders they are likely to be given in: $a < -a < 1a < _ < a < a_1
SortKeys ==
    { <<"a">>, <<"a", "_", "1">>, <<"$", "a">>, <<"_">>, <<"1", "a">>, <<"-", "a">> }

SortContents == {Ser(VObject({<<key, VNumber>>})) : key \in SortKeys}

InitOrder == InitOver({<<"b">>}, SortContents, MaxSamples)

\* One category of arrays of primitives of every kind, objects and arrays,
\* in every order
VBool == <<"bool", TRUE>>

ArrayElements ==
    {VString(<<"x">>), VNumber, VBool, VNull, VObject({}), VArray(<<VNumber>>)}

MaxArraySamples == 1

ArrayContents ==
    {Ser(VArray(<<>>))}
    \cup {Ser(VArray(elems)) : elems \in SeqsUpTo(ArrayElements, MaxArrLen)}

InitArrays == InitOver({<<"b">>}, ArrayContents, MaxArraySamples)

----------------------------------------------------------------------------
(* The steps of generate_typescript_definitions *)

\* Lines 16-40: every sample decoded, in input order
Decode ==
    /\ pc = "start"
    /\ items' = [i \in 1..Len(json_array) |-> DecodeItem(json_array[i])]
    /\ pc' = "decoded"
    /\ UNCHANGED <<json_array, type_contents, invalid_json_types,
                   overall_inferred_types, output>>

\* Lines 42-57: the sequential fold into the two HashMaps
Group ==
    /\ pc = "decoded"
    /\ LET acc == GroupFold(<<type_contents, invalid_json_types>>, items) IN
       /\ type_contents' = acc[1]
       /\ invalid_json_types' = acc[2]
    /\ pc' = "grouped"
    /\ UNCHANGED <<json_array, items, overall_inferred_types, output>>

\* Lines 59-69: the reduction of one category's values; a panic of
\* merge_types propagates out of generate_typescript_definitions
Reduce(event_type) ==
    /\ pc = "grouped"
    /\ type_contents[event_type] # <<>>
    /\ ~HasEntry(overall_inferred_types, event_type)
    /\ \E final_type \in ReduceOutcomes(InferredOf(type_contents[event_type])) :
          IF final_type = Panic
          THEN /\ pc' = "done"
               /\ output' = Panic
               /\ UNCHANGED overall_inferred_types
          ELSE /\ overall_inferred_types' =
                      [overall_inferred_types EXCEPT ![event_type] = final_type]
               /\ UNCHANGED <<pc, output>>
    /\ UNCHANGED <<json_array, items, type_contents, invalid_json_types>>

\* Lines 70-75: every category with invalid content becomes Primitive(String)
Extend ==
    /\ pc = "grouped"
    /\ \A c \in Categories :
          type_contents[c] # <<>> => HasEntry(overall_inferred_types, c)
    /\ overall_inferred_types' = Extended(overall_inferred_types, invalid_json_types)
    /\ pc' = "extended"
    /\ UNCHANGED <<json_array, items, type_contents, invalid_json_types, output>>

\* Lines 77-105: the declarations and the root union
Render ==
    /\ pc = "extended"
    /\ output' = Assemble(overall_inferred_types, invalid_json_types)
    /\ pc' = "done"
    /\ UNCHANGED <<json_array, items, type_contents, invalid_json_types,
                   overall_inferred_types>>

Next ==
    \/ Decode
    \/ Group
    \/ \E event_type \in Categories : Reduce(event_type)
    \/ Extend
    \/ Render

Spec == Init /\ [][Next]_vars

SpecDecode == InitDecode /\ [][Next]_vars

SpecObjects == InitObjects /\ [][Next]_vars

SpecTuples == InitTuples /\ [][Next]_vars

SpecMerge == InitMerge /\ [][Next]_vars

SpecKeys == InitKeys /\ [][Next]_vars

SpecOrder == InitOrder /\ [][Next]_vars

SpecArrays == InitArrays /\ [][Next]_vars

----------------------------------------------------------------------------
(* Notions the properties are stated with *)

IsValid(sample) == ~DecodeItem(sample)[3]

\* The types the run has computed so far: the inferred type of every valid
\* sample and the final type of every reduced category
ReachedTypes ==
    {infer_type_from_value(items[i][2]) : i \in {j \in 1..Len(items) : ~items[j][3]}}
    \cup {overall_inferred_types[c] :
             c \in {d \in Categories : HasEntry(overall_inferred_types, d)}}

\* A type and every type nested in it
RECURSIVE Parts(_)
Parts(type) ==
    {type} \cup
    IF type[1] = "Array" \/ type[1] = "NullableObj" THEN Parts(type[2])
    ELSE IF type[1] = "Object" THEN UNION {Parts(prop[2]) : prop \in type[2]}
    ELSE {}

\* The types of the run, the types nested in them, and the two types no
\* value infers to
KnownTypes == UNION {Parts(t) : t \in ReachedTypes} \cup {Any, Never}

\* A category whose reduction has returned and whose entry is its result
Reduced(c) == pc = "grouped" /\ HasEntry(overall_inferred_types, c)

Permutations(seq) ==
    {[i \in 1..Len(seq) |-> seq[f[i]]] :
        f \in {g \in [1..Len(seq) -> 1..Len(seq)] :
                  \A i, j \in 1..Len(seq) : g[i] = g[j] => i = j}}

\* The results of every grouping of a non-empty sequence, its order kept
RECURSIVE Groupings(_)
Groupings(types) ==
    IF Len(types) = 1 THEN {types[1]}
    ELSE UNION {{merge_types(left, right) :
                    left \in Groupings(SubSeq(types, 1, k)),
                    right \in Groupings(SubSeq(types, k + 1, Len(types)))} :
                k \in 1..(Len(types) - 1)}

\* The results of every fold of the types, in every order and grouping,
\* seeded with Never
FoldResults(types) ==
    UNION {{merge_types(Never, r) : r \in Groupings(perm)} :
              perm \in Permutations(types)}

\* The set of a sequence's elements
Range(seq) == {seq[i] : i \in 1..Len(seq)}

\* The elements of a set of kinds, ascending
RECURSIVE AscendingKinds(_)
AscendingKinds(kinds) ==
    IF kinds = {} THEN <<>>
    ELSE LET least == CHOOSE k \in kinds : \A o \in kinds : k <= o
         IN  <<least>> \o AscendingKinds(kinds \ {least})

\* Whether a JSON value conforms to a type
RECURSIVE Conforms(_, _)
Conforms(value, type) ==
    LET variant == type[1] IN
    IF variant = "Any" THEN TRUE
    ELSE IF variant = "Primitive"
    THEN IsPrimitiveValue(value) /\ PrimitiveKind(value) = type[2]
    ELSE IF variant = "PrimitiveUnion"
    THEN IsPrimitiveValue(value) /\ PrimitiveKind(value) \in Range(type[2])
    ELSE IF variant = "PrimitiveTuple"
    THEN /\ value[1] = "array"
         /\ \A i \in 1..Len(value[2]) : IsPrimitiveValue(value[2][i])
         /\ Len(value[2]) = Len(type[2])
         /\ \A k \in PrimitiveType :
               Cardinality({i \in 1..Len(value[2]) : PrimitiveKind(value[2][i]) = k})
               = Cardinality({i \in 1..Len(type[2]) : type[2][i] = k})
    ELSE IF variant = "Array"
    THEN value[1] = "array" /\ \A i \in 1..Len(value[2]) : Conforms(value[2][i], type[2])
    ELSE IF variant = "Object"
    THEN /\ value[1] = "object"
         /\ \A prop \in type[2] : ~prop[3] => \E m \in value[2] : m[1] = prop[1]
         /\ \A m \in value[2] :
               \A prop \in type[2] : prop[1] = m[1] => Conforms(m[2], prop[2])
    ELSE IF variant = "NullableObj"
    THEN value[1] = "null" \/ Conforms(value, type[2])
    ELSE FALSE   \* Never, and no type at all after a panic

----------------------------------------------------------------------------
(* C1..C5 *)

\* C1: merge_types is commutative: for every two types a and b the run has
\* computed, merge_types(a, b) and merge_types(b, a) have the same outcome
\* (equal types, or both the fatal branch).
C1_MergeCommutative ==
    \A a, b \in ReachedTypes : merge_types(a, b) = merge_types(b, a)

\* C2: the final type of a category is the same for every permutation of its
\* samples and every grouping of the reduction: every fold of the category's
\* inferred types yields the type the reduction returned.
C2_FoldOrderIndependent ==
    \A c \in Categories :
        Reduced(c) =>
            \A r \in FoldResults(InferredOf(type_contents[c])) :
                r = overall_inferred_types[c]

\* C3: when every sample's content decodes to a valid JSON value, generation
\* reaches neither the unreachable!() arm of merge_types nor the Never arm of
\* format_type_to_ts_string.
C3_NoFatalBranchOnValidInput ==
    (\A i \in 1..Len(json_array) : IsValid(json_array[i])) => output # Panic

\* C4: the merged type covers both inputs (whenever merge_types returns one,
\* every value that conforms to either input conforms to it), and every
\* sample of a category conforms to the category's final type.
C4_MergedTypeCovers ==
    /\ \A i, j, k \in 1..Len(items) :
          (~items[i][3] /\ ~items[j][3] /\ ~items[k][3]) =>
              LET t1 == infer_type_from_value(items[i][2])
                  t2 == infer_type_from_value(items[j][2])
              IN  (/\ merge_types(t1, t2) # Panic
                   /\ Conforms(items[k][2], t1) \/ Conforms(items[k][2], t2))
                     => Conforms(items[k][2], merge_types(t1, t2))
    /\ \A c \in Categories :
          Reduced(c) =>
              \A i \in 1..Len(type_contents[c]) :
                  Conforms(type_contents[c][i], overall_inferred_types[c])

\* The declaration of a category with invalid content raw
StringDeclaration(category, raw) ==
    "// The 'content' field contained invalid JSON: \"" \o Shown(raw[2])
    \o "\"\nexport type " \o pascal_case(category) \o "Content = string;\n\n"

\* C5: a sample whose content does not decode never aborts generation: the
\* call returns Ok, and the declaration of every category with such a sample
\* is `export type <Name>Content = string;` after a comment line that quotes
\* invalid content of that category.
C5_DecodeFailureRecovered ==
    pc = "done" =>
        \A i \in 1..Len(json_array) :
            ~IsValid(json_array[i]) =>
                /\ output[1] = "Ok"
                /\ \E k \in 1..Len(output[2]), j \in 1..Len(json_array) :
                      /\ json_array[j][1] = json_array[i][1]
                      /\ ~IsValid(json_array[j])
                      /\ output[2][k] =
                            StringDeclaration(json_array[i][1],
                                              DecodeItem(json_array[j])[2][2])

----------------------------------------------------------------------------
(* C6..C10 *)

\* The input without its i-th sample
Without(input, i) == SubSeq(input, 1, i - 1) \o SubSeq(input, i + 1, Len(input))

CategoriesIn(input) == {input[i][1] : i \in 1..Len(input)}

\* What a result holds for a category of the input: its declaration, or
\* nothing when the call panicked
DeclarationIn(result, input, category) ==
    IF result = Panic THEN Panic
    ELSE LET keys == Ascending(CategoriesIn(input))
             k == CHOOSE j \in 1..Len(keys) : keys[j] = category
         IN  <<"declaration", result[2][k]>>

\* C6: a decode failure is isolated to its own category: with or without an
\* undecodable sample of category C in the input, the declaration of every
\* other category D is the same.
C6_DecodeFailureIsolated ==
    pc = "done" =>
        \A i \in 1..Len(json_array) :
            ~IsValid(json_array[i]) =>
                LET rest == Without(json_array, i)
                    without == generate_typescript_definitions(rest, Categories)
                    with == generate_typescript_definitions(json_array, Categories)
                IN  \A D \in CategoriesIn(rest) \ {json_array[i][1]} :
                        /\ DeclarationIn(output, json_array, D)
                              \in {DeclarationIn(o, rest, D) : o \in without}
                        /\ {DeclarationIn(o, rest, D) : o \in without}
                              = {DeclarationIn(o, json_array, D) : o \in with}

C6_Witness ==
    /\ pc = "done"
    /\ output[1] = "Ok"
    /\ \E i, j \in 1..Len(json_array) :
          /\ ~IsValid(json_array[i])
          /\ IsValid(json_array[j])
          /\ json_array[j][1] # json_array[i][1]
          /\ \A k \in 1..Len(json_array) :
                json_array[k][1] = json_array[j][1] => IsValid(json_array[k])

MemberKeys(value) == {m[1] : m \in value[2]}

\* The Object the claim describes for a sequence of object samples
ObjectOfSamples(type, values) ==
    /\ type[1] = "Object"
    /\ Keys(type[2]) = UNION {MemberKeys(values[i]) : i \in 1..Len(values)}
    /\ \A prop \in type[2] :
          prop[3] <=> \E i \in 1..Len(values) : prop[1] \notin MemberKeys(values[i])

DemotedArray(kinds) ==
    IF Cardinality(kinds) = 1
    THEN <<"Array", Primitive(CHOOSE k \in kinds : TRUE)>>
    ELSE <<"Array", <<"PrimitiveUnion", AscendingKinds(kinds)>>>>

\* C8: two different PrimitiveTuples merge to Array(Primitive(k)) when k is the
\* only kind in both, and otherwise to Array(PrimitiveUnion(u)), u the kinds of
\* both, ascending and without duplicates; a fold of tuples returns a
\* PrimitiveTuple only if all its samples have that same kind list.
C8_TuplesDemoteToArray ==
    /\ \A i, j \in 1..Len(items) :
          LET t1 == infer_type_from_value(items[i][2])
              t2 == infer_type_from_value(items[j][2])
          IN  (/\ ~items[i][3] /\ ~items[j][3]
               /\ t1[1] = "PrimitiveTuple" /\ t2[1] = "PrimitiveTuple" /\ t1 # t2) =>
                  merge_types(t1, t2) = DemotedArray(Range(t1[2]) \cup Range(t2[2]))
    /\ \A c \in Categories :
          LET types == InferredOf(type_contents[c]) IN
          (/\ pc = "grouped" /\ types # <<>>
           /\ \A i \in 1..Len(types) : types[i][1] = "PrimitiveTuple") =>
              /\ \A r \in Groupings(types) \cup ReduceOutcomes(types) :
                    r[1] = "PrimitiveTuple" => \A i \in 1..Len(types) : types[i] = r
              /\ Reduced(c) /\ overall_inferred_types[c][1] = "PrimitiveTuple" =>
                    \A i \in 1..Len(types) : types[i] = overall_inferred_types[c]

C8_Witness ==
    \E c \in Categories :
        /\ Reduced(c)
        /\ overall_inferred_types[c] = <<"Array", <<"PrimitiveUnion", <<String, Number>>>>>>
        /\ \E i \in 1..Len(type_contents[c]) : Len(type_contents[c][i][2]) = 2

\* A sample whose property `a` is an object, or is null
PropertyIsObject(value) ==
    value[1] = "object" /\ \E m \in value[2] : m[1] = KeyA /\ m[2][1] = "object"

PropertyIsNull(value) ==
    value[1] = "object" /\ \E m \in value[2] : m[1] = KeyA /\ m[2][1] = "null"

\* C9: a property that is an object in some samples of a category and null in
\* the others ends up as NullableObj(Object(...)), for any number of object
\* and null samples and any order of merging them.
C9_ObjectOrNullIsNullable ==
    \A c \in Categories :
        LET values == type_contents[c] IN
        (/\ pc = "grouped"
         /\ \A i \in 1..Len(values) : PropertyIsObject(values[i]) \/ PropertyIsNull(values[i])
         /\ \E i \in 1..Len(values) : PropertyIsObject(values[i])
         /\ \E i \in 1..Len(values) : PropertyIsNull(values[i])) =>
            \A r \in FoldResults(InferredOf(values))
                     \cup {overall_inferred_types[c] : d \in {e \in {c} : Reduced(e)}} :
                /\ r # Panic
                /\ r[1] = "Object"
                /\ \E prop \in r[2] :
                      /\ prop[1] = KeyA
                      /\ prop[2][1] = "NullableObj"
                      /\ prop[2][2][1] = "Object"

\* C10: generation is a function of its input: the result of a run is the
\* result of every run on the same input, however the reductions are split.
C10_GenerationDeterministic ==
    pc = "done" =>
        \A o \in generate_typescript_definitions(json_array, Categories) : o = output

----------------------------------------------------------------------------
(* C11..C15 *)

\* The declaration block the Orchestrator is to emit for a category, with or
\* without the comment line of a category with invalid content
IsDeclarationOf(block, category, rendered) ==
    LET declaration == "export type " \o pascal_case(category) \o "Content = "
                       \o rendered \o ";\n\n"
    IN  \/ block = declaration
        \/ \E i \in 1..Len(json_array) :
              /\ json_array[i][1] = category
              /\ ~IsValid(json_array[i])
              /\ block = "// The 'content' field contained invalid JSON: \""
                         \o Shown(DecodeItem(json_array[i])[2][2][2]) \o "\"\n"
                         \o declaration

\* The member of the root union for a category
RootMember(category) ==
    "{ type: \"" \o Shown(category) \o "\", content: "
    \o pascal_case(category) \o "Content }"

\* C11: the returned text is one declaration per distinct category of the
\* input (valid or invalid), in lexicographic order of the category names,
\* then one root declaration whose members list each category once in that
\* same order; which category stands where depends on the set of categories
\* only, not on the order of the samples.
C11_OneDeclarationPerCategory ==
    (pc = "done" /\ output[1] = "Ok") =>
        \E keys \in SeqsUpTo(Categories, Cardinality(Categories)) :
            /\ Range(keys) = CategoriesIn(json_array)
            /\ \A i, j \in 1..Len(keys) : i < j => StrLess(keys[i], keys[j])
            /\ Len(output[2]) = Len(keys) + 1
            /\ \A i \in 1..Len(keys) :
                  IsDeclarationOf(output[2][i], keys[i],
                      format_type_to_ts_string(overall_inferred_types[keys[i]]))
            /\ output[2][Len(keys) + 1] =
                  "export type " \o root_name \o " = "
                  \o join([i \in 1..Len(keys) |-> RootMember(keys[i])], " | ")
                  \o ";\n"

C11_Witness ==
    /\ pc = "done"
    /\ output[1] = "Ok"
    /\ Len(output[2]) = 3
    /\ json_array[1][1] = <<"b">>
    /\ \A i \in 1..Len(json_array) : json_array[i][1] = <<"b">> => ~IsValid(json_array[i])

\* C12: Never is the identity of merge_types, on either side, for every type
\* of the run (and Any and Never), so a fold seeded with Never returns what
\* the fold seeded with its first element returns.
C12_NeverIsIdentity ==
    /\ \A x \in KnownTypes :
          merge_types(Never, x) = x /\ merge_types(x, Never) = x
    /\ \A c \in Categories :
          LET types == InferredOf(type_contents[c]) IN
          (pc = "grouped" /\ types # <<>>) =>
              FoldLeft(Never, types) = FoldLeft(Head(types), Tail(types))

C12_Witness ==
    \E c \in Categories :
        /\ Reduced(c)
        /\ Len(type_contents[c]) = 3
        /\ overall_inferred_types[c] = FoldLeft(Never, InferredOf(type_contents[c]))
        /\ overall_inferred_types[c][1] = "NullableObj"
        /\ \E x \in KnownTypes : x[1] = "Object"

\* C13: Any is absorbing for merge_types, on either side, for every type of
\* the run (Never, Primitive(Null) and NullableObj among them); a fold whose
\* accumulator has become Any returns Any.
C13_AnyIsAbsorbing ==
    /\ \A x \in KnownTypes :
          merge_types(Any, x) = Any /\ merge_types(x, Any) = Any
    /\ \A c \in Categories :
          LET types == InferredOf(type_contents[c]) IN
          pc = "grouped" =>
              \A k, m \in 1..Len(types) :
                  (k <= m /\ FoldLeft(Never, SubSeq(types, 1, k)) = Any) =>
                      FoldLeft(Never, SubSeq(types, 1, m)) = Any

C13_Witness ==
    \E c \in Categories :
        LET types == InferredOf(type_contents[c]) IN
        /\ Reduced(c)
        /\ Len(types) = 3
        /\ FoldLeft(Never, SubSeq(types, 1, 2)) = Any
        /\ types[3] = Primitive(Null)
        /\ overall_inferred_types[c] = Any

\* The line of a property in the text of an Object
PropertyLine(prop) ==
    "  " \o format_property_key(prop[1]) \o (IF prop[3] THEN "?" ELSE "")
    \o ": " \o format_type_to_ts_string(prop[2])

\* The text of an Object whose properties are listed in the order `keys`
ObjectText(keys, properties) ==
    "{\n" \o join([i \in 1..Len(keys) |-> PropertyLine(PropOf(properties, keys[i]))],
                  ";\n") \o "\n}"

\* C14: the text of a non-empty Object lists its properties by ascending
\* key, whatever order its map iterates in; the text of a category of
\* objects with number properties is fixed by the set of its samples (the
\* keys ascending, `?` on a key some sample lacks), whatever the order and
\* grouping they are merged in.
C14_ObjectRenderedSorted ==
    /\ \A t \in KnownTypes :
          (t[1] = "Object" /\ t[2] # {}) =>
              \E keys \in IterationOrders(Keys(t[2])) :
                  /\ \A i, j \in 1..Len(keys) : i < j => StrLess(keys[i], keys[j])
                  /\ format_type_to_ts_string(t) = ObjectText(keys, t[2])
                  /\ \A entries \in IterationOrders(t[2]) :
                        format_object(entries) = ObjectText(keys, t[2])
    /\ \A c \in Categories :
          LET values == type_contents[c]
              types == InferredOf(values)
              all_keys == UNION {MemberKeys(values[i]) : i \in 1..Len(values)}
              text(keys) ==
                  "{\n" \o join([i \in 1..Len(keys) |->
                                    "  " \o format_property_key(keys[i])
                                    \o (IF \A n \in 1..Len(values) :
                                              keys[i] \in MemberKeys(values[n])
                                        THEN "" ELSE "?")
                                    \o ": number"], ";\n") \o "\n}"
          IN  (pc = "grouped" /\ values # <<>>) =>
                  \E keys \in IterationOrders(all_keys) :
                      /\ \A i, j \in 1..Len(keys) : i < j => StrLess(keys[i], keys[j])
                      /\ \A r \in Groupings(types) \cup ReduceOutcomes(types) :
                            format_type_to_ts_string(r) = text(keys)
                      /\ Reduced(c) =>
                            format_type_to_ts_string(overall_inferred_types[c])
                                = text(keys)

C14_Witness ==
    \E c \in Categories :
        /\ Reduced(c)
        /\ overall_inferred_types[c][1] = "Object"
        /\ Cardinality(overall_inferred_types[c][2]) = 3
        /\ \E entries \in IterationOrders(overall_inferred_types[c][2]) :
              StrLess(entries[2][1], entries[1][1])

AsciiDigits == {"0", "1", "2", "3", "4", "5", "6", "7", "8", "9"}

AsciiLetters ==
    {"a", "b", "c", "d", "e", "f", "g", "h", "i", "j", "k", "l", "m",
     "n", "o", "p", "q", "r", "s", "t", "u", "v", "w", "x", "y", "z",
     "A", "B", "C", "D", "E", "F", "G", "H", "I", "J", "K", "L", "M",
     "N", "O", "P", "Q", "R", "S", "T", "U", "V", "W", "X", "Y", "Z"}

\* ^[^0-9][A-Za-z0-9_$]*$
MatchesPattern(key) ==
    /\ key # <<>>
    /\ Head(key) \notin AsciiDigits
    /\ \A i \in 2..Len(key) : key[i] \in AsciiLetters \cup AsciiDigits \cup {"_", "$"}

\* Not empty, no numeric character in front, and every character (the first
\* too) alphanumeric, `_` or `$`
IdentifierKey(key) ==
    /\ key # <<>>
    /\ ~is_numeric(Head(key))
    /\ \A i \in 1..Len(key) : is_alphanumeric(key[i]) \/ key[i] \in {"_", "$"}

\* The key between double quotes, a backslash before each double quote in it
RECURSIVE QuotedTail(_)
QuotedTail(cs) ==
    IF cs = <<>> THEN "\""
    ELSE IF Head(cs) = "\"" THEN "\\" \o "\"" \o QuotedTail(Tail(cs))
    ELSE Head(cs) \o QuotedTail(Tail(cs))

QuotedKey(key) == "\"" \o QuotedTail(key)

\* The keys of the Objects of the run
KnownKeys == UNION {Keys(t[2]) : t \in {u \in KnownTypes : u[1] = "Object"}}

\* The declaration of a category of objects with number properties, its keys
\* rendered by `rendered`
NumberObjectDeclaration(category, values, rendered(_)) ==
    LET keys == Ascending(UNION {MemberKeys(values[i]) : i \in 1..Len(values)})
    IN  "export type " \o pascal_case(category) \o "Content = {\n"
        \o join([i \in 1..Len(keys) |->
                    "  " \o rendered(keys[i])
                    \o (IF \A n \in 1..Len(values) : keys[i] \in MemberKeys(values[n])
                        THEN "" ELSE "?")
                    \o ": number"], ";\n")
        \o "\n};\n\n"

BareIfPattern(key) == IF MatchesPattern(key) THEN Shown(key) ELSE QuotedKey(key)

BareIfIdentifier(key) == IF IdentifierKey(key) THEN Shown(key) ELSE QuotedKey(key)

----------------------------------------------------------------------------
(* C16..C20 *)

\* C16: every PrimitiveUnion in a type of the run, at any depth, holds at
\* least two kinds, strictly ascending (so without duplicates).
C16_UnionsSortedDistinct ==
    \A t \in KnownTypes :
        t[1] = "PrimitiveUnion" =>
            /\ Len(t[2]) >= 2
            /\ \A i, j \in 1..Len(t[2]) : i < j => t[2][i] < t[2][j]

\* C17: the inner type of every NullableObj in a type of the run, at any
\* depth, is an Object or an Array.
C17_NullableWrapsObjectOrArray ==
    \A t \in KnownTypes :
        t[1] = "NullableObj" => t[2][1] \in {"Object", "Array"}

\* C18: no Never reaches format_type_to_ts_string: no value infers to a type
\* with a Never in it, merge_types returns Never only for two Nevers, no
\* reduction of a category's (non-empty) samples returns a type with a Never
\* in it, and no type of the map that is rendered holds one.
C18_NeverNotFormatted ==
    /\ \A i \in 1..Len(items) :
          ~items[i][3] => Never \notin Parts(infer_type_from_value(items[i][2]))
    /\ \A a, b \in KnownTypes :
          merge_types(a, b) = Never => (a = Never /\ b = Never)
    /\ \A c \in Categories :
          (pc = "grouped" /\ type_contents[c] # <<>>) =>
              \A r \in ReduceOutcomes(InferredOf(type_contents[c])) :
                  r # Panic => Never \notin Parts(r)
    /\ \A c \in Categories :
          HasEntry(overall_inferred_types, c) =>
              /\ Never \notin Parts(overall_inferred_types[c])
              /\ ~format_panics(overall_inferred_types[c])

C18_Witness ==
    /\ pc = "extended"
    /\ Len(type_contents[<<"b">>]) = 3
    /\ overall_inferred_types[<<"b">>][1] = "NullableObj"
    /\ type_contents[<<"b">>][1] = VArray(<<>>)

\* The kinds an array's item type of primitives describes
KindsOf(item) == IF item[1] = "Primitive" THEN {item[2]} ELSE Range(item[2])

\* A PrimitiveTuple and an Array whose item is a Primitive or a PrimitiveUnion
TupleWithArray(t, a) ==
    /\ t[1] = "PrimitiveTuple"
    /\ a[1] = "Array"
    /\ a[2][1] \in {"Primitive", "PrimitiveUnion"}

\* What the claim gives for merging the tuple t and the array a
TupleArrayDemoted(t, a, merged) ==
    TupleWithArray(t, a) => merged = DemotedArray(Range(t[2]) \cup KindsOf(a[2]))

\* C19: merging a PrimitiveTuple with an Array of primitives, in either
\* argument order, returns Array(Primitive(k)) when k is the only kind of both
\* and otherwise Array(PrimitiveUnion) of the kinds of both, ascending and
\* without duplicates; checked on every two types of the run and on every step
\* of the left fold of a category.
C19_TupleArrayDemotes ==
    /\ \A t, a \in KnownTypes :
          /\ TupleArrayDemoted(t, a, merge_types(t, a))
          /\ TupleArrayDemoted(t, a, merge_types(a, t))
    /\ \A c \in Categories :
          LET types == InferredOf(type_contents[c]) IN
          pc = "grouped" =>
              \A k \in 1..(Len(types) - 1) :
                  LET acc == FoldLeft(Never, SubSeq(types, 1, k))
                      next == types[k + 1]
                  IN  /\ TupleArrayDemoted(acc, next, merge_types(acc, next))
                      /\ TupleArrayDemoted(next, acc, merge_types(acc, next))
                      /\ TupleArrayDemoted(acc, next, merge_types(next, acc))
                      /\ TupleArrayDemoted(next, acc, merge_types(next, acc))

\* An Array is returned unchanged by a merge with the empty tuple
EmptyTupleNeutral(a) ==
    a[1] = "Array" =>
        /\ merge_types(EMPTY_TUPLE, a) = a
        /\ merge_types(a, EMPTY_TUPLE) = a

\* C20: an empty JSON array infers to the empty PrimitiveTuple, and merging
\* the empty PrimitiveTuple with an Array(item), in either argument order,
\* returns Array(item), whatever item is; checked on the samples, on every
\* type of the run and on every accumulator of the left fold of a category.
C20_EmptyTupleNeutralForArrays ==
    /\ \A i \in 1..Len(items) :
          (~items[i][3] /\ items[i][2] = VArray(<<>>)) =>
              infer_type_from_value(items[i][2]) = EMPTY_TUPLE
    /\ \A a \in KnownTypes : EmptyTupleNeutral(a)
    /\ \A c \in Categories :
          LET types == InferredOf(type_contents[c]) IN
          pc = "grouped" =>
              \A k \in 1..Len(types) :
                  EmptyTupleNeutral(FoldLeft(Never, SubSeq(types, 1, k)))

C20_Witness ==
    \E c \in Categories :
        LET types == InferredOf(type_contents[c]) IN
        /\ Reduced(c)
        /\ Len(types) = 3
        /\ types[3] = EMPTY_TUPLE
        /\ FoldLeft(Never, SubSeq(types, 1, 2)) = overall_inferred_types[c]
        /\ overall_inferred_types[c][1] = "Array"
        /\ overall_inferred_types[c][2][1] = "PrimitiveUnion"

----------------------------------------------------------------------------
(* C21 *)

\* The number of elements of kind k in an array of primitives
CountOfKind(arr, k) ==
    Cardinality({i \in 1..Len(arr) : PrimitiveKind(arr[i]) = k})

\* What the claim gives for the type inferred from the array arr
InferredFromArray(arr, type) ==
    IF \A i \in 1..Len(arr) : IsPrimitiveValue(arr[i])
    THEN /\ type[1] = "PrimitiveTuple"
         /\ Len(type[2]) = Len(arr)
         /\ \A i, j \in 1..Len(type[2]) : i < j => type[2][i] <= type[2][j]
         /\ \A k \in PrimitiveType :
               Cardinality({i \in 1..Len(type[2]) : type[2][i] = k}) = CountOfKind(arr, k)
         /\ \A perm \in Permutations(arr) :
               infer_type_from_value(VArray(perm)) = type
    ELSE LET folded == FoldLeft(Never, [i \in 1..Len(arr) |->
                                          infer_type_from_value(arr[i])])
         IN  type = IF folded = Panic THEN Panic ELSE <<"Array", folded>>

\* C21: an array whose elements are all primitives infers to the
\* PrimitiveTuple of its elements' kinds in ascending order (the array's
\* length, the same type for every permutation of the array); an array with
\* an object or array element infers to Array of the fold of merge_types over
\* its elements' inferred types (or the inference fails where that fold does).
\* The type of a category with one such sample is the type inferred from it.
C21_ArrayInference ==
    /\ \A i \in 1..Len(items) :
          (~items[i][3] /\ items[i][2][1] = "array") =>
              InferredFromArray(items[i][2][2], infer_type_from_value(items[i][2]))
    /\ \A c \in Categories :
          (Reduced(c) /\ Len(type_contents[c]) = 1
                      /\ type_contents[c][1][1] = "array") =>
              InferredFromArray(type_contents[c][1][2], overall_inferred_types[c])

C21_Witness ==
    \E c \in Categories :
        /\ Reduced(c)
        /\ type_contents[c] = <<VArray(<<VNumber, VString(<<"x">>)>>)>>
        /\ overall_inferred_types[c] = <<"PrimitiveTuple", <<String, Number>>>>

====
